---- MODULE Spec2Model ----
(***************************************************************************)
(* Model of src/app.py: the spreadsheet importer process_and_upload, the   *)
(* interactive create form and the remediation update form, all writing    *)
(* to one shared worksheet (the Record Store).                             *)
(*                                                                         *)
(* Texts are sequences of tokens.  The Korean literals of the source are   *)
(* written in ASCII romanisation, one token per morpheme, so that          *)
(* substring tests of the source (str.contains) are sub-sequence tests:    *)
(*   jeomgeomil      = 점검일      beonho          = 번호                  *)
(*   gaeseon         = 개선        piryosahang     = 필요사항              *)
(*   naeyong         = 내용        wanryoil        = 완료일                *)
(*   gwanribuseo     = 관리부서    damdang         = 담당                  *)
(*   jinhaengsangtae = 진행상태    jinhaengjung    = 진행중                *)
(*   wanryo          = 완료        gita            = 기타                  *)
(*   ilsi = 일시   gongjeong = 공정   ja = 자   sajin_jeon = 사진_전       *)
(*   sajin_hu = 사진_후                                                    *)
(***************************************************************************)
EXTENDS Integers, Sequences, FiniteSets, TLC

VARIABLES store, now, uploaded_file, pc, upd, last, written, other

vars == <<store, now, uploaded_file, pc, upd, last, written, other>>

-----------------------------------------------------------------------------
(* Bounds of the model *)

\* the clock runs over 0..MaxTime seconds
MaxTime == 1
\* the worksheet holds at most MaxStore rows
MaxStore == 3
\* an uploaded file has at most MaxFileRows rows
MaxFileRows == 3
\* in the runs of the interactive forms the worksheet holds at most
\* MaxFormRows rows
MaxFormRows == 2

-----------------------------------------------------------------------------
(* Texts *)

\* an empty cell of an uploaded file is read by pandas as NaN
NaN == <<>>
\* the empty string
Empty == <<>>

isna(cell) == cell = NaN
notna(cell) == cell # NaN

\* str(x) of a cell value: NaN prints as "nan"
Str(cell) == IF isna(cell) THEN <<"nan">> ELSE cell

\* s.str.contains(pat): pat occurs in text as a contiguous run
Contains(text, pat) ==
  \E i \in 1..(Len(text) - Len(pat) + 1) : SubSeq(text, i, i + Len(pat) - 1) = pat

IsSpace(tok) == tok \in {" ", "\n"}

RECURSIVE LStrip(_)
LStrip(text) ==
  IF text # <<>> /\ IsSpace(Head(text)) THEN LStrip(Tail(text)) ELSE text

RECURSIVE RStrip(_)
RStrip(text) ==
  IF text # <<>> /\ IsSpace(text[Len(text)])
  THEN RStrip(SubSeq(text, 1, Len(text) - 1))
  ELSE text

\* str.strip()
Strip(text) == RStrip(LStrip(text))

\* position of the first token equal to tok; Len(text) + 1 when there is none
RECURSIVE IndexOf(_, _)
IndexOf(text, tok) ==
  IF text = <<>> \/ Head(text) = tok THEN 1 ELSE 1 + IndexOf(Tail(text), tok)

\* raw.split("\n")[0]
BeforeNewline(text) == SubSeq(text, 1, IndexOf(text, "\n") - 1)

\* s.replace(".", "-")
ReplaceDots(text) == [i \in 1..Len(text) |-> IF text[i] = "." THEN "-" ELSE text[i]]

Years == {"2024"}
Months == {"03"}
Days == {"05", "06"}

\* pd.to_datetime(s) succeeds on year, month and day joined by - or /
IsDateText(text) ==
  /\ Len(text) = 5
  /\ text[1] \in Years /\ text[3] \in Months /\ text[5] \in Days
  /\ text[2] \in {"-", "/"} /\ text[4] = text[2]

\* pd.to_datetime(str(cell).replace(".", "-")).strftime("%Y-%m-%d"), "" on failure
ParseDate(cell) ==
  LET s == ReplaceDots(Str(cell))
  IN IF IsDateText(s) THEN <<s[1], "-", s[3], "-", s[5]>> ELSE Empty

-----------------------------------------------------------------------------
(* The Record Store: a sequence of rows of ten cells *)

ColId == 1
ColStatus == 6
ColAction == 7
ColComplete == 8
ColPhotoAfter == 10

\* final_df.columns: the ten canonical column names
Header ==
  << <<"ID">>, <<"ilsi">>, <<"gongjeong">>, <<"gaeseon", " ", "piryosahang">>,
     <<"damdang", "ja">>, <<"jinhaengsangtae">>, <<"gaeseon", "naeyong">>,
     <<"gaeseon", "wanryoil">>, <<"sajin_jeon">>, <<"sajin_hu">> >>

InProgress == <<"jinhaengjung">>
Done == <<"wanryo">>

-----------------------------------------------------------------------------
(* Uploaded files: a grid of cells, seven columns wide *)

\* a full header row: serial, date, issue, owner, status, remediation, completion
HDR ==
  << <<"beonho">>, <<"jeomgeomil">>, <<"gaeseon", " ", "piryosahang">>,
     <<"gwanribuseo">>, <<"jinhaengsangtae">>, <<"gaeseon", "naeyong">>,
     <<"gaeseon", "wanryoil">> >>
\* a second header line: it holds a marker but not the six roles; no date cell
SUB ==
  << <<"beonho">>, NaN, <<"naeyong">>, <<"damdang">>, <<"jinhaengsangtae">>,
     <<"gaeseon", "naeyong">>, NaN >>
\* a data row with a date, whose issue text mentions a serial number
GOOD ==
  << <<"1">>, <<"2024", ".", "03", ".", "05">>,
     <<"room", "\n", "label", "beonho", "missing">>, <<"teamA">>,
     <<" ", "wanryo", " ">>, <<"replaced">>, <<"2024", "/", "03", "/", "06">> >>
\* a data row whose date cell is present but is no date
BAD ==
  << <<"2">>, <<"undecided">>, <<"rusty", "knife">>, <<"teamB">>,
     <<"jinhaengjung">>, NaN, NaN >>
RowPool == {HDR, SUB, GOOD, BAD}

Grids == UNION {[1..n -> RowPool] : n \in 0..MaxFileRows}

\* what the file uploader can hold: a grid of rows, or a file pandas cannot read
Files ==
  {[readable |-> TRUE, rows |-> g] : g \in Grids}
    \cup {[readable |-> FALSE, rows |-> <<>>]}

\* the files offered in the runs of the interactive forms
FormFiles ==
  {[readable |-> TRUE, rows |-> <<HDR, GOOD>>]}

\* row.astype(str).str.contains("점검일").any() or ...contains("번호").any()
HasMarker(row) ==
  \E k \in 1..Len(row) :
    Contains(Str(row[k]), <<"jeomgeomil">>) \/ Contains(Str(row[k]), <<"beonho">>)

\* header_idx = None
None == -1

\* pd.read_csv(f) / pd.read_excel(f): the first row of the file becomes the
\* column labels of df_raw, the rows after it are df_raw's rows 0, 1, ...
df_raw(file) == IF file = <<>> THEN <<>> ELSE Tail(file)

\* the loop over df_raw.iterrows(): index of the first row holding a marker
header_idx(file) ==
  LET raw == df_raw(file)
      hits == {idx \in 0..(Len(raw) - 1) : HasMarker(raw[idx + 1])}
  IN IF hits = {} THEN None
     ELSE CHOOSE idx \in hits : \A j \in hits : idx <= j

\* the labels pandas gives the columns of a header row: an empty cell becomes
\* "Unnamed: k", a repeated label gets the suffix .c
Labels(row) ==
  [k \in 1..Len(row) |->
     LET c == Cardinality({j \in 1..(k - 1) : row[j] = row[k]})
     IN IF isna(row[k]) THEN <<"Unnamed: ", ToString(k - 1)>>
        ELSE IF c > 0 THEN row[k] \o <<".", ToString(c)>>
        ELSE row[k]]

\* pd.read_csv(f, header=header_idx): row header_idx of the file (counted from
\* zero) gives the column labels; cols = df.columns.astype(str)
cols(file, hidx) == Labels(file[hidx + 1])

\* df: the rows of the file after the row used as header
df(file, hidx) == SubSeq(file, hidx + 2, Len(file))

\* cols[cols.str.contains(a) | cols.str.contains(b)][0]: the position of the
\* first matching label, 0 when no label matches (the lookup raises)
FirstCol(labels, pats) ==
  LET hits == {k \in 1..Len(labels) : \E p \in pats : Contains(labels[k], p)}
  IN IF hits = {} THEN 0 ELSE CHOOSE k \in hits : \A j \in hits : k <= j

\* col_date, col_issue, col_dept, col_status, col_action, col_complete
Columns(labels) ==
  [date |-> FirstCol(labels, {<<"jeomgeomil">>}),
   issue |-> FirstCol(labels, {<<"gaeseon", " ", "piryosahang">>, <<"naeyong">>}),
   dept |-> FirstCol(labels, {<<"gwanribuseo">>, <<"damdang">>}),
   status |-> FirstCol(labels, {<<"jinhaengsangtae">>}),
   action |-> FirstCol(labels, {<<"gaeseon", "naeyong">>}),
   complete |-> FirstCol(labels, {<<"gaeseon", "wanryoil">>})]

\* the try block of the six lookups completes
RolesResolved(c) == \A role \in DOMAIN c : c[role] # 0

\* location = raw_issue.split("\n")[0].strip() if "\n" in raw_issue else "기타"
Location(raw_issue) ==
  IF Contains(raw_issue, <<"\n">>) THEN Strip(BeforeNewline(raw_issue)) ELSE <<"gita">>

\* ImportedId without the batch timestamp
ImportedId_NoTimestamp(base_ts, i) == <<"IMPORTED_", "_", ToString(i)>>

\* f"IMPORTED_{base_ts}_{i}"
ImportedId(base_ts, i) == <<"IMPORTED_", ToString(base_ts), "_", ToString(i)>>

\* row_data for row i of df (counted from zero), in the column order of final_df
row_data(c, row, base_ts, i) ==
  << ImportedId(base_ts, i),
     ParseDate(row[c.date]),
     Location(Str(row[c.issue])),
     Str(row[c.issue]),
     Str(row[c.dept]),
     Strip(Str(row[c.status])),
     IF notna(row[c.action]) THEN Str(row[c.action]) ELSE Empty,
     ParseDate(row[c.complete]),
     Empty,
     Empty >>

\* Skipped that also drops the rows whose date does not parse
Skipped_Unparseable(c, row) == ParseDate(row[c.date]) = Empty

\* the row is skipped: pd.isna(row[col_date])
Skipped(c, row) == isna(row[c.date])

\* the loop over df.iterrows(): one record per row whose date cell is present
RECURSIVE all_data_from(_, _, _, _)
all_data_from(c, rows, base_ts, i) ==
  IF i >= Len(rows) THEN <<>>
  ELSE (IF Skipped(c, rows[i + 1]) THEN <<>>
        ELSE <<row_data(c, rows[i + 1], base_ts, i)>>)
       \o all_data_from(c, rows, base_ts, i + 1)

all_data(c, rows, base_ts) == all_data_from(c, rows, base_ts, 0)

\* StoreIsBlank with < for <=
StoreIsBlank_Strict(current_data) == Len(current_data) < 1

\* len(current_data) <= 1
StoreIsBlank(current_data) == Len(current_data) <= 1

\* ws.update([header] + rows): writes the rows from cell A1 on, over what is
\* there; ws.append_rows(rows): adds the rows after the last row
Commit(current_data, rows) ==
  IF StoreIsBlank(current_data)
  THEN <<Header>> \o rows
  ELSE current_data \o rows

\* ImportOutcome without the check of the six column lookups
ImportOutcome_NoColumnCheck(readable, hidx, c, batch, apiOk) ==
  IF ~readable THEN "ReadFailed"
  ELSE IF hidx = None THEN "HeaderNotFound"
  ELSE IF batch = <<>> THEN "KeyError"
  ELSE IF ~apiOk THEN "UploadFailed"
  ELSE "Uploaded"

\* how process_and_upload ends: the read fails, no header row is found, a
\* column lookup raises, final_df[[...]] raises KeyError on an empty frame
\* (outside any try), a worksheet call raises, or the rows are written
ImportOutcome(readable, hidx, c, batch, apiOk) ==
  IF ~readable THEN "ReadFailed"
  ELSE IF hidx = None THEN "HeaderNotFound"
  ELSE IF ~RolesResolved(c) THEN "RequiredColumnMissing"
  ELSE IF batch = <<>> THEN "KeyError"
  ELSE IF ~apiOk THEN "UploadFailed"
  ELSE "Uploaded"

-----------------------------------------------------------------------------
(* The interactive forms *)

\* what the create form submits: owner text and the result of upload_photo
\* ("" when no photo was given or the upload failed)
CreateForms ==
  { [mgr |-> <<"kim">>, photo_file_id |-> Empty],
    [mgr |-> <<"1">>, photo_file_id |-> <<"fileA">>] }

\* the row appended by the create form at second new_id
CreatedRow(new_id, form) ==
  << <<ToString(new_id)>>, <<"2024", "-", "03", "-", "05">>, <<"room">>,
     <<"rusty", "knife">>, form.mgr, InProgress, Empty, Empty,
     form.photo_file_id, Empty >>

\* what the remediation form submits
ActionTexts == {<<" ">>, <<"fixed", " ">>}
ActionDate == <<"2024", "-", "03", "-", "06">>
AfterPhotos == {Empty, <<"fileB">>}

\* the IDs the select box can offer: the IDs of the rows below the first row,
\* or an ID of a table read earlier (load_data is cached)
Targets(rows) ==
  {rows[r][ColId] : r \in 2..Len(rows)} \cup {<<ToString(t)>> : t \in 0..MaxTime}

\* ws.find(query): the row of the first cell, row by row, whose value is query;
\* 0 when no cell matches (find returns None and cell.row raises)
FindRow(rows, query) ==
  LET hits == {r \in 1..Len(rows) : \E c \in 1..Len(rows[r]) : rows[r][c] = query}
  IN IF hits = {} THEN 0 ELSE CHOOSE r \in hits : \A j \in hits : r <= j

\* ws.update_cell(row, col, value)
update_cell(rows, row, col, value) == [rows EXCEPT ![row][col] = value]

\* CellWrite with the status written first
CellWrite_StatusFirst(at, u) ==
  CASE at = "w7" -> [col |-> ColStatus, value |-> Done]
    [] at = "w8" -> [col |-> ColAction, value |-> u.atxt]
    [] at = "w6" -> [col |-> ColComplete, value |-> u.adt]
    [] at = "w10" -> [col |-> ColPhotoAfter, value |-> u.photo_after_id]

\* the cell writes of the remediation form, in the order of the source:
\* the text, the completion date, the status, the photo
CellWrite(at, u) ==
  CASE at = "w7" -> [col |-> ColAction, value |-> u.atxt]
    [] at = "w8" -> [col |-> ColComplete, value |-> u.adt]
    [] at = "w6" -> [col |-> ColStatus, value |-> Done]
    [] at = "w10" -> [col |-> ColPhotoAfter, value |-> u.photo_after_id]

\* the position after a cell write; "idle" when the handler is through
NextWrite(at, u) ==
  CASE at = "w7" -> "w8"
    [] at = "w8" -> "w6"
    [] at = "w6" -> IF u.photo_after_id # Empty THEN "w10" ELSE "idle"
    [] at = "w10" -> "idle"

-----------------------------------------------------------------------------------------------------------------------------------------------------
(* The state machine *)

NoUpd == [id |-> Empty, row |-> 0, atxt |-> Empty, adt |-> Empty, photo_after_id |-> Empty]

NoOp ==
  [op |-> "none", outcome |-> "none", pre |-> <<>>, ts |-> 0, hidx |-> None,
   batch |-> <<>>, prev |-> <<>>]

Ids(rows) == {rows[r][ColId] : r \in 1..Len(rows)}

\* another user's session with no handler running: pc is the position of the
\* handler, current_data and batch the locals of process_and_upload between
\* ws.get_all_values and the write, upd the locals of the remediation form
NoOther ==
  [pc |-> "idle", current_data |-> <<>>, batch |-> <<>>, upd |-> NoUpd,
   outcome |-> "none"]

InitWith(files) ==
  /\ store \in {<<>>, <<Header>>}
  /\ now = 0
  /\ uploaded_file \in files
  /\ pc = "idle"
  /\ upd = NoUpd
  /\ last = NoOp
  /\ written = {}
  /\ other = NoOther

\* a second passes
Tick ==
  /\ now < MaxTime
  /\ now' = now + 1
  /\ UNCHANGED <<store, uploaded_file, pc, upd, last, written, other>>

\* process_and_upload(gc, uploaded_file); apiOk: the worksheet calls succeed;
\* cap: the rows the worksheet may hold in this run
Import(cap) ==
  \E file \in {uploaded_file.rows}, readable \in {uploaded_file.readable},
     base_ts \in {now} :
  \E hidx \in {IF readable THEN header_idx(file) ELSE None} :
  \E c \in {Columns(IF hidx = None THEN <<>> ELSE cols(file, hidx))} :
  \E batch \in {IF hidx # None /\ RolesResolved(c)
                THEN all_data(c, df(file, hidx), base_ts) ELSE <<>>} :
  \E apiOk \in BOOLEAN :
  \E outcome \in {ImportOutcome(readable, hidx, c, batch, apiOk)} :
  \E after \in {IF outcome = "Uploaded" THEN Commit(store, batch) ELSE store} :
     /\ pc = "idle"
     /\ ~apiOk => outcome = "UploadFailed"
     /\ Len(after) <= cap
     /\ store' = after
     /\ written' = IF outcome = "Uploaded" THEN written \cup Ids(batch) ELSE written
     /\ last' = [op |-> "import", outcome |-> outcome, pre |-> store,
                 ts |-> base_ts, hidx |-> hidx, batch |-> batch,
                 prev |-> IF last.op = "import" /\ last.outcome = "Uploaded"
                          THEN <<[ts |-> last.ts, batch |-> last.batch,
                                  pre |-> last.pre]>>
                          ELSE <<>>]
     /\ UNCHANGED <<now, uploaded_file, pc, upd, other>>

\* the create form: upload_photo, then one append_row
Create(form, apiOk, cap) ==
  LET new_id == now
      row == CreatedRow(new_id, form)
  IN /\ pc = "idle"
     /\ Len(store) < cap
     /\ store' = IF apiOk THEN Append(store, row) ELSE store
     /\ written' = IF apiOk THEN written \cup {row[ColId]} ELSE written
     /\ last' = [NoOp EXCEPT !.op = "create",
                             !.outcome = IF apiOk THEN "Created" ELSE "Exception",
                             !.pre = store, !.ts = new_id,
                             !.batch = IF apiOk THEN <<row>> ELSE <<>>]
     /\ UNCHANGED <<now, uploaded_file, pc, upd, other>>

\* the remediation form is submitted: the text check, upload_photo and
\* ws.find; with no cell found, cell.row raises and the handler ends
UpdateSubmit(selected_id, atxt, aph) ==
  LET row == FindRow(store, selected_id)
      outcome == IF Strip(atxt) = Empty THEN "Warned"
                 ELSE IF row = 0 THEN "UpdateFailed"
                 ELSE "Updating"
  IN /\ pc = "idle"
     /\ pc' = IF outcome = "Updating" THEN "w7" ELSE "idle"
     /\ upd' = IF outcome = "Warned" THEN NoUpd
               ELSE IF outcome = "UpdateFailed" THEN [NoUpd EXCEPT !.id = selected_id]
               ELSE [id |-> selected_id, row |-> row, atxt |-> atxt,
                     adt |-> ActionDate, photo_after_id |-> aph]
     /\ last' = [NoOp EXCEPT !.op = "update", !.outcome = outcome, !.pre = store]
     /\ UNCHANGED <<store, now, uploaded_file, written, other>>

\* one ws.update_cell of the remediation form
UpdateCell ==
  /\ pc # "idle"
  /\ store' = update_cell(store, upd.row, CellWrite(pc, upd).col, CellWrite(pc, upd).value)
  /\ pc' = NextWrite(pc, upd)
  /\ last' = [last EXCEPT !.outcome = IF NextWrite(pc, upd) = "idle"
                                       THEN "UpdateDone" ELSE "Updating"]
  /\ UNCHANGED <<now, uploaded_file, upd, written, other>>

\* a call to the worksheet (ws.find or a ws.update_cell) raises; the handler
\* shows the error and ends
UpdateError ==
  /\ pc # "idle"
  /\ pc' = "idle"
  /\ last' = [last EXCEPT !.outcome = "UpdateFailed"]
  /\ UNCHANGED <<store, now, uploaded_file, upd, written, other>>

\* the importer, over every file of the bounds, on a worksheet that also
\* receives created rows
InitImport == InitWith(Files)

NextImport ==
  \/ Tick
  \/ Import(MaxStore)
  \/ \E form \in {f \in CreateForms : f.photo_file_id = Empty} :
       Create(form, TRUE, MaxStore)

SpecImport == InitImport /\ [][NextImport]_vars

\* the interactive forms and the importer on one worksheet
Init == InitWith(FormFiles)

Next ==
  \/ Tick
  \/ Import(MaxFormRows)
  \/ \E form \in CreateForms, apiOk \in BOOLEAN : Create(form, apiOk, MaxFormRows)
  \/ \E selected_id \in Targets(store), atxt \in ActionTexts, aph \in AfterPhotos :
       UpdateSubmit(selected_id, atxt, aph)
  \/ UpdateCell
  \/ UpdateError

Spec == Init /\ [][Next]_vars

-----------------------------------------------------------------------------
(* Two sessions on one worksheet: the handlers of the other session run
   between the worksheet calls of the remediation form *)

\* CommitOn with the branch chosen on the worksheet as it is at the write
CommitOn_Reread(current_data, sheet, rows) ==
  IF StoreIsBlank(sheet) THEN <<Header>> \o rows ELSE sheet \o rows

\* the write of process_and_upload on the worksheet as it is at the write,
\* the branch chosen on current_data, read before: ws.update writes the rows
\* from cell A1 on and leaves the rows below them; ws.append_rows adds the
\* rows after the last row
CommitOn(current_data, sheet, rows) ==
  IF StoreIsBlank(current_data)
  THEN LET block == <<Header>> \o rows
       IN block \o SubSeq(sheet, Len(block) + 1, Len(sheet))
  ELSE sheet \o rows

\* what the other session types into the remediation form
OtherTexts == {<<"redone">>}

\* the IDs the select box offers on a fresh table: the records below the
\* first row
Offered(rows) == {rows[r][ColId] : r \in 2..Len(rows)}

\* the create form of the other session: one ws.append_row
OtherCreate(form) ==
  /\ Len(store) < MaxFormRows
  /\ store' = Append(store, CreatedRow(now, form))
  /\ written' = written \cup {CreatedRow(now, form)[ColId]}
  /\ UNCHANGED <<now, uploaded_file, pc, upd, last, other>>

\* process_and_upload of the other session up to ws.get_all_values
OtherImportRead ==
  \E file \in {uploaded_file.rows}, readable \in {uploaded_file.readable},
     base_ts \in {now} :
  \E hidx \in {IF readable THEN header_idx(file) ELSE None} :
  \E c \in {Columns(IF hidx = None THEN <<>> ELSE cols(file, hidx))} :
  \E batch \in {IF hidx # None /\ RolesResolved(c)
                THEN all_data(c, df(file, hidx), base_ts) ELSE <<>>} :
  \E outcome \in {ImportOutcome(readable, hidx, c, batch, TRUE)} :
     /\ other.pc = "idle"
     /\ other' = IF outcome = "Uploaded"
                 THEN [NoOther EXCEPT !.pc = "commit", !.current_data = store,
                                      !.batch = batch]
                 ELSE [NoOther EXCEPT !.outcome = outcome]
     /\ UNCHANGED <<store, now, uploaded_file, pc, upd, last, written>>

\* the write of process_and_upload of the other session
OtherImportWrite ==
  \E after \in {CommitOn(other.current_data, store, other.batch)} :
     /\ other.pc = "commit"
     /\ Len(other.batch) + (IF StoreIsBlank(other.current_data) THEN 1 ELSE Len(store))
          <= MaxFormRows
     /\ store' = after
     /\ written' = written \cup Ids(other.batch)
     /\ other' = [NoOther EXCEPT !.outcome = "Uploaded"]
     /\ UNCHANGED <<now, uploaded_file, pc, upd, last>>

\* the worksheet call of process_and_upload of the other session raises
OtherImportError ==
  /\ other.pc = "commit"
  /\ other' = [NoOther EXCEPT !.outcome = "UploadFailed"]
  /\ UNCHANGED <<store, now, uploaded_file, pc, upd, last, written>>

\* the remediation form of the other session is submitted: ws.find
OtherUpdateSubmit(selected_id, atxt, aph) ==
  LET row == FindRow(store, selected_id)
  IN /\ other.pc = "idle"
     /\ Strip(atxt) # Empty
     /\ other' = IF row = 0
                 THEN [NoOther EXCEPT !.outcome = "UpdateFailed"]
                 ELSE [NoOther EXCEPT !.pc = "w7", !.outcome = "Updating",
                         !.upd = [id |-> selected_id, row |-> row, atxt |-> atxt,
                                  adt |-> ActionDate, photo_after_id |-> aph]]
     /\ UNCHANGED <<store, now, uploaded_file, pc, upd, last, written>>

\* one ws.update_cell of the remediation form of the other session
OtherUpdateCell ==
  /\ other.pc \in {"w7", "w8", "w6", "w10"}
  /\ store' = update_cell(store, other.upd.row, CellWrite(other.pc, other.upd).col,
                          CellWrite(other.pc, other.upd).value)
  /\ other' = IF NextWrite(other.pc, other.upd) = "idle"
              THEN [NoOther EXCEPT !.outcome = "UpdateDone"]
              ELSE [other EXCEPT !.pc = NextWrite(other.pc, other.upd)]
  /\ UNCHANGED <<now, uploaded_file, pc, upd, last, written>>

InitConc == InitWith(FormFiles)

NextConc ==
  \/ Tick
  \/ \E selected_id \in Offered(store), atxt \in ActionTexts, aph \in AfterPhotos :
       UpdateSubmit(selected_id, atxt, aph)
  \/ UpdateCell
  \/ UpdateError
  \/ \E form \in {f \in CreateForms : f.photo_file_id = Empty} : OtherCreate(form)
  \/ OtherImportRead
  \/ OtherImportWrite
  \/ OtherImportError
  \/ \E selected_id \in Offered(store), atxt \in OtherTexts :
       OtherUpdateSubmit(selected_id, atxt, Empty)
  \/ OtherUpdateCell

SpecConc == InitConc /\ [][NextConc]_vars

-----------------------------------------------------------------------------
(* The claims about the importer, checked under SpecImport *)

\* the file of the last import, as rows
TheFile == uploaded_file.rows

\* the row holds a header marker in some cell
MarkerRow(row) ==
  \E k \in 1..Len(row) : \E i \in 1..Len(Str(row[k])) :
    Str(row[k])[i] \in {"jeomgeomil", "beonho"}

MarkerRows == {p \in 1..Len(TheFile) : MarkerRow(TheFile[p])}

\* the first row of the file, from the top, that holds a header marker
FirstMarkerRow == CHOOSE p \in MarkerRows : \A q \in MarkerRows : p <= q

\* the patterns of the six roles: date, issue, owner, status, remediation
\* text, completion date
RolePatterns ==
  { {<<"jeomgeomil">>},
    {<<"gaeseon", " ", "piryosahang">>, <<"naeyong">>},
    {<<"gwanribuseo">>, <<"damdang">>},
    {<<"jinhaengsangtae">>},
    {<<"gaeseon", "naeyong">>},
    {<<"gaeseon", "wanryoil">>} }

\* some role matches no label of the row the import took as header
SomeRoleUnmatched ==
  LET labels == Labels(TheFile[last.hidx + 1])
  IN \E pats \in RolePatterns :
       \A k \in 1..Len(labels) : \A p \in pats : ~Contains(labels[k], p)

ImportRan == last.op = "import" /\ uploaded_file.readable

\* C1: an import that aborts writes nothing: a file with no header marker in
\* any row ends with HeaderNotFound, a file with a located header and a role
\* that matches no column label ends with RequiredColumnMissing, and in both
\* cases the rows of the store are the rows before the call.
C1_AbortWritesNothing ==
  ImportRan =>
    /\ MarkerRows = {} => last.outcome = "HeaderNotFound"
    /\ (last.hidx # None /\ SomeRoleUnmatched) => last.outcome = "RequiredColumnMissing"
    /\ last.outcome \in {"HeaderNotFound", "RequiredColumnMissing"} => store = last.pre

\* an import of a file with a located header and an unmatched role has ended
\* on a store that holds rows
C1_Witness ==
  /\ ImportRan /\ last.hidx # None /\ SomeRoleUnmatched
  /\ last.outcome = "RequiredColumnMissing"
  /\ Len(store) >= 2

\* C2: committing a batch of n >= 1 records to a store of r rows leaves, for
\* r <= 1, the header row followed by the n records and nothing else, and for
\* r >= 2 the r rows unchanged in place followed by the n records.
C2_ReplaceOrAppend ==
  (last.op = "import" /\ last.outcome = "Uploaded") =>
    LET r == Len(last.pre)
        n == Len(last.batch)
    IN /\ n >= 1
       /\ r <= 1 =>
            /\ Len(store) = 1 + n
            /\ store[1] = Header
            /\ \A i \in 1..n : store[1 + i] = last.batch[i]
       /\ r >= 2 =>
            /\ Len(store) = r + n
            /\ \A k \in 1..r : store[k] = last.pre[k]
            /\ \A i \in 1..n : store[r + i] = last.batch[i]

\* a batch was appended to a store of two or more rows
C2_Witness ==
  /\ last.op = "import" /\ last.outcome = "Uploaded"
  /\ Len(last.pre) >= 2
  /\ Len(store) = Len(last.pre) + Len(last.batch)

\* the import got through the header and the six columns
Normalized == ImportRan /\ last.outcome \in {"KeyError", "UploadFailed", "Uploaded"}

\* the position of the date column in the header row: the first label that
\* holds the date token
DateCol ==
  LET row == TheFile[FirstMarkerRow]
      hits == {k \in 1..Len(row) : \E i \in 1..Len(row[k]) : row[k][i] = "jeomgeomil"}
  IN CHOOSE k \in hits : \A j \in hits : k <= j

\* the data rows after the header row whose date cell is present
PresentRows == {p \in (FirstMarkerRow + 1)..Len(TheFile) : TheFile[p][DateCol] # NaN}

AbsentRows == {p \in (FirstMarkerRow + 1)..Len(TheFile) : TheFile[p][DateCol] = NaN}

\* the date cell is text that is no date
Unparseable(cell) == cell # NaN /\ ~IsDateText(ReplaceDots(cell))

\* C3: with a located header and the six roles resolved, the batch holds one
\* record per data row after the header row whose date cell is present, in
\* row order; rows with an absent date cell are left out, rows with a present
\* date cell that is no date are in it with an empty InspectionDate.
C3_OneRecordPerDatedRow ==
  Normalized =>
    /\ Len(last.batch) = Cardinality(PresentRows)
    /\ Len(last.batch) = (Len(TheFile) - FirstMarkerRow) - Cardinality(AbsentRows)
    /\ \A p \in PresentRows :
         LET k == Cardinality({q \in PresentRows : q <= p})
             rec == last.batch[k]
         IN /\ rec[ColId] = <<"IMPORTED_", ToString(last.ts), "_",
                              ToString(p - FirstMarkerRow - 1)>>
            /\ Unparseable(TheFile[p][DateCol]) => rec[2] = Empty
            /\ ~Unparseable(TheFile[p][DateCol]) => rec[2] # Empty

\* an upload that left out a row without a date and kept a row whose date is
\* no date
C3_Witness ==
  /\ Normalized /\ last.outcome = "Uploaded"
  /\ AbsentRows # {}
  /\ \E p \in PresentRows : Unparseable(TheFile[p][DateCol])

\* C4: the header row the import chooses is the first row of the file, at any
\* position, that holds a header marker; its cells are the column labels and
\* the rows after it are the data rows.
C4_HeaderIsFirstMarkerRow ==
  (ImportRan /\ MarkerRows # {}) =>
    /\ last.hidx # None
    /\ last.hidx + 1 = FirstMarkerRow

\* C8: an import whose batch is empty (header and six columns found, no data
\* row with a date) reports "nothing to upload" as a handled result and
\* leaves the store as it was.
C8_EmptyBatchHandled ==
  (Normalized /\ last.batch = <<>>) =>
    /\ last.outcome = "NothingToUpload"
    /\ store = last.pre

\* C9, as claimed: two imports of the same file, one after the other, give
\* two batches with no ID in common, and both batches are in the store.
C9_TwoImportsDisjointIds ==
  (last.op = "import" /\ last.outcome = "Uploaded" /\ last.prev # <<>>) =>
    /\ Ids(last.prev[1].batch) \cap Ids(last.batch) = {}
    /\ Len(store) = Len(last.prev[1].pre) + 2 * Len(last.batch)
         \/ Len(store) = 1 + 2 * Len(last.batch)

\* C9, amended: two imports of the same file, one after the other, put two
\* batches of n records each in the store, the second after the first, with no
\* deduplication; the batches have no ID in common when the batch timestamps
\* of the two calls differ, and the same IDs when both calls read the same
\* second.
C9_TwoImportsNoDedup ==
  (last.op = "import" /\ last.outcome = "Uploaded" /\ last.prev # <<>>) =>
    LET first == last.prev[1]
        n == Len(last.batch)
        r == IF Len(first.pre) <= 1 THEN 1 ELSE Len(first.pre)
    IN /\ n >= 1 /\ Len(first.batch) = n
       /\ Len(store) = r + 2 * n
       /\ \A i \in 1..n : store[r + i] = first.batch[i] /\ store[r + n + i] = last.batch[i]
       /\ first.ts # last.ts => Ids(first.batch) \cap Ids(last.batch) = {}
       /\ first.ts = last.ts => Ids(first.batch) = Ids(last.batch)

\* the same file was imported twice, in different seconds
C9_Witness ==
  /\ last.op = "import" /\ last.outcome = "Uploaded" /\ last.prev # <<>>
  /\ last.prev[1].ts # last.ts
  /\ Len(store) >= 1 + 2 * Len(last.batch)

-----------------------------------------------------------------------------
(* The claims about the interactive forms, checked under Spec *)

\* a remediation update has run through its cell writes
UpdateCompleted == last.op = "update" /\ last.outcome = "UpdateDone" /\ pc = "idle"

\* the rows of the store before the update whose ID column holds the target
IdRows == {r \in 1..Len(last.pre) : last.pre[r][ColId] = upd.id}

\* C5: a successful remediation update for a target ID t that is the ID of a
\* row changes only the first row whose ID column equals t, and in it only
\* RemediationText, CompletionDate, Status (set to done) and, when a photo was
\* supplied, PhotoAfter; every other cell of the store is unchanged, also in
\* rows that hold the text t in another column.
C5_UpdateTouchesOnlyIdRow ==
  (UpdateCompleted /\ IdRows # {}) =>
       LET target == CHOOSE r \in IdRows : \A q \in IdRows : r <= q
       IN /\ Len(store) = Len(last.pre)
          /\ store[target][ColAction] = upd.atxt
          /\ store[target][ColComplete] = upd.adt
          /\ store[target][ColStatus] = Done
          /\ upd.photo_after_id # Empty => store[target][ColPhotoAfter] = upd.photo_after_id
          /\ \A r \in 1..Len(store) : \A col \in 1..Len(store[r]) :
               store[r][col] # last.pre[r][col] =>
                 /\ r = target
                 /\ col \in {ColAction, ColComplete, ColStatus, ColPhotoAfter}
                 /\ col = ColPhotoAfter => upd.photo_after_id # Empty

\* C6: a remediation update whose target ID is the ID of no row of the store
\* reports a failure and changes no cell.
C6_MissingTargetChangesNothing ==
  (last.op = "update" /\ last.outcome # "Warned" /\ IdRows = {}) =>
    /\ last.outcome = "UpdateFailed"
    /\ store = last.pre

\* C7: no record is ever deleted: every ID once written by a create or an
\* import is still the ID of a row of the store.
C7_NoRecordDeleted == written \subseteq Ids(store)

\* the row was appended by the create form: it is neither the header row nor
\* an imported record
IsCreated(row) == row # Header /\ row[ColId][1] # "IMPORTED_"

\* C10: in every state, also between the cell writes of an update and after
\* an update that failed part-way, a record made by the create form and
\* changed only by remediation updates that has Status done has a non-empty
\* RemediationText and a non-empty CompletionDate.
C10_DoneHasTextAndDate ==
  \A r \in 1..Len(store) :
    (IsCreated(store[r]) /\ store[r][ColStatus] = Done) =>
      /\ Strip(store[r][ColAction]) # Empty
      /\ store[r][ColComplete] # Empty

\* an update failed after its first cell write: the text is written, the
\* status is not
C10_Witness ==
  /\ last.op = "update" /\ last.outcome = "UpdateFailed" /\ store # last.pre
  /\ \E r \in 1..Len(store) :
       /\ IsCreated(store[r])
       /\ store[r][ColAction] # Empty
       /\ store[r][ColStatus] = InProgress

-----------------------------------------------------------------------------
(* The claim about two sessions, checked under SpecConc *)

\* the step is a cell write of the remediation form of this session
ThisCellWrite == pc # "idle" /\ pc' # pc /\ last'.outcome # "UpdateFailed"

\* the step is a cell write of the remediation form of the other session
OtherCellWrite ==
  other.pc \in {"w7", "w8", "w6", "w10"} /\ other' # other /\ store' # store

\* the step is the write of the import of the other session
OtherImportWrote == other.pc = "commit" /\ other'.outcome = "Uploaded"

\* C11: the operations of two sessions are not coordinated. A cell write of
\* a remediation update goes to the row position its lookup returned, whatever
\* the other session has written to the worksheet since the lookup, also when
\* that row no longer holds the record with the target ID, and the update
\* reports no conflict; the write of an import acts on the row count it read
\* before, over the rows written since; whenever two operations write the same
\* cell the later value stands.
C11_WritesNotCoordinated ==
  [][ /\ ThisCellWrite =>
           /\ upd.row = FindRow(last.pre, upd.id)
           /\ \/ pc = "w7" /\ store'[upd.row][ColAction] = upd.atxt
              \/ pc = "w8" /\ store'[upd.row][ColComplete] = upd.adt
              \/ pc = "w6" /\ store'[upd.row][ColStatus] = Done
              \/ pc = "w10" /\ store'[upd.row][ColPhotoAfter] = upd.photo_after_id
           /\ last'.outcome \in {"Updating", "UpdateDone"}
      /\ OtherCellWrite =>
           /\ \/ other.pc = "w7" /\ store'[other.upd.row][ColAction] = other.upd.atxt
              \/ other.pc = "w8" /\ store'[other.upd.row][ColComplete] = other.upd.adt
              \/ other.pc = "w6" /\ store'[other.upd.row][ColStatus] = Done
              \/ other.pc = "w10"
                   /\ store'[other.upd.row][ColPhotoAfter] = other.upd.photo_after_id
           /\ other'.outcome \in {"Updating", "UpdateDone"}
      /\ OtherImportWrote =>
           IF Len(other.current_data) <= 1
           THEN /\ SubSeq(store', 1, Len(other.batch) + 1) = <<Header>> \o other.batch
                /\ Len(store') >= Len(store)
                /\ \A r \in Len(other.batch) + 2 .. Len(store') : store'[r] = store[r]
           ELSE store' = store \o other.batch
    ]_vars

\* an update found its record in a row below the first row, the import of
\* the other session then wrote another record to that row, and the update,
\* reported as saved, has its text and status in the row of that other record
C11_Witness ==
  /\ last.op = "update" /\ last.outcome = "UpdateDone" /\ pc = "idle"
  /\ upd.row >= 2
  /\ last.pre[upd.row][ColId] = upd.id
  /\ store[upd.row][ColId] # upd.id
  /\ store[upd.row][ColAction] = upd.atxt
  /\ store[upd.row][ColStatus] = Done
  /\ upd.id \notin Ids(store)

====
